---- MODULE Spec2Model ----
(***************************************************************************)
(* Chat service of the Gemini local chat interface: the credential         *)
(* fallback loop (callChatApi), the conversation lifecycle                 *)
(* (runChatLifecycle / executeChat), the user operations that enter it     *)
(* (sendMessage, regenerate, resubmit) and cancellation.                   *)
(*                                                                         *)
(* JavaScript runs one handler at a time; a handler gives up control only  *)
(* at an `await`.  Every action below is the code between two awaits.      *)
(***************************************************************************)
EXTENDS Integers, Sequences, FiniteSets, TLC

\* ------------------------------------------------------------------ bounds

\* Number of sendMessage / regenerate / resubmit calls that get past their guards.
MaxRuns == 2

\* In the key-selection specification: fallback keys configured, the largest
\* daily limit, and the largest call count the ledger starts with.
MaxFallbacks == 2

MaxLimit == 2

MaxUsage == 2

\* In the regenerate specification: messages the conversation starts with.
MaxHist == 4

\* Files waiting in the input area at a time.
MaxFiles == 1

\* In the shaping specification: stored messages, and parts of a user message.
MaxShape == 2

MaxParts == 2

\* ------------------------------------------------------- program constants

\* getApiKeyIdentifier keeps the last four characters of a key: key.slice(-4).
IdSuffixLen == 4

\* error.status === 429
QuotaStatus == 429

\* ------------------------------------------------------------ value spaces

SessionIds == {"s1", "s2"}

\* appState.activeSessionId when no conversation is active (null).
NoSession == "null"

StatusKeys == SessionIds \cup {NoSession}

Models == {"m1", "m2"}

Runs == 1..MaxRuns

\* API keys are character sequences.  K1 and K2 share their last four characters.
EmptyKey == <<>>

K1 == <<"A", "1", "2", "3", "4">>

K2 == <<"B", "1", "2", "3", "4">>

K3 == <<"C", "5", "6", "7", "8">>

Range(s) == {s[i] : i \in 1..Len(s)}

\* ---------------------------------------------------------- pure functions

\* key.slice(-4): the last IdSuffixLen characters, or the whole key when shorter.
SliceLast(key, n) ==
    IF Len(key) <= n THEN key ELSE SubSeq(key, Len(key) - n + 1, Len(key))

\* const getApiKeyIdentifier = (key) => key ? `key_${key.slice(-4)}` : 'no_key';
getApiKeyIdentifier(key) ==
    IF key = EmptyKey THEN <<"no_key">> ELSE <<"key_">> \o SliceLast(key, IdSuffixLen)

\* String.prototype.toLowerCase on the words error messages are made of.
ToLowerCase(w) ==
    CASE w = "Quota" -> "quota"
      [] w = "QUOTA" -> "quota"
      [] w = "Too" -> "too"
      [] w = "Many" -> "many"
      [] w = "Requests" -> "requests"
      [] w = "Failed" -> "failed"
      [] w = "API" -> "api"
      [] OTHER -> w

\* An edit handler that does not trim.
TrimNothing(text) == text

\* String.prototype.trim on the texts an edit can submit.
Trim(text) ==
    CASE text = " " -> ""
      [] text = " ed " -> "ed"
      [] OTHER -> text

\* dailyUsage.usageByKey?.[keyId]?.calls?.[model] || 0
UsageCalls(usage, keyId, model) ==
    IF <<keyId, model>> \in DOMAIN usage THEN usage[<<keyId, model>>].calls ELSE 0

\* [primaryKey, ...fallbackKeys].filter(Boolean)
AllKeys(st) ==
    SelectSeq(<<st.apiKey>> \o st.fallbackApiKeys, LAMBDA k : k # EmptyKey)

\* limits[model] || 0
ModelLimit(st, model) ==
    IF model \in DOMAIN st.dailyLimits THEN st.dailyLimits[model] ELSE 0

\* The filter callback with the comparison of line 38 written <= : a key that has
\* reached the limit stays usable.
KeyIsUsableAtLimit(st, usage, model, key) ==
    IF ModelLimit(st, model) = 0
    THEN TRUE
    ELSE UsageCalls(usage, getApiKeyIdentifier(key), model) <= ModelLimit(st, model)

\* The filter callback of usableKeys.
KeyIsUsable(st, usage, model, key) ==
    IF ModelLimit(st, model) = 0
    THEN TRUE
    ELSE UsageCalls(usage, getApiKeyIdentifier(key), model) < ModelLimit(st, model)

\* const usableKeys = allKeys.filter(...)
UsableKeys(st, usage, model) ==
    SelectSeq(AllKeys(st), LAMBDA k : KeyIsUsable(st, usage, model, k))

\* The classification with the status test written >= : a server error counts as
\* a quota rejection.
IsQuotaErrorLoose(error) ==
    \/ "quota" \in {ToLowerCase(w) : w \in Range(error.message)}
    \/ error.status >= QuotaStatus

\* error.message.toLowerCase().includes('quota') || error.status === 429
IsQuotaError(error) ==
    \/ "quota" \in {ToLowerCase(w) : w \in Range(error.message)}
    \/ error.status = QuotaStatus

\* ------------------------------------------------------------ message parts

\* { type: 'text', text }
TextPart(text) == [type |-> "text", text |-> text]

\* A part made from an attached file: it carries data, no text.
FilePart(type) == [type |-> type, text |-> <<>>]

\* The part type prepareMessageParts gives a file of the given MIME type.
FilePartType(mime) ==
    IF mime = "image/png" THEN "image"
    ELSE IF mime = "application/pdf" THEN "pdf-attachment"
    ELSE "code-summary"

\* prepareMessageParts(messageText, attachedFiles)
PrepareMessageParts(messageText, files) ==
    [i \in 1..Len(files) |-> FilePart(FilePartType(files[i]))]
        \o (IF messageText # "" THEN <<TextPart(<<messageText>>)>> ELSE <<>>)

\* history.findLastIndex(m => m.role === 'user'), 1-based; 0 when there is none.
LastUserMessageIndex(h) ==
    LET hits == {i \in 1..Len(h) : h[i].role = "user"}
    IN  IF hits = {} THEN 0 ELSE CHOOSE i \in hits : \A j \in hits : i >= j

\* Filtering that removes only the first part that is neither text nor image.
FilterPartsFirstOnly(parts) ==
    LET bad == {i \in 1..Len(parts) : parts[i].type \notin {"text", "image"}}
    IN  IF bad = {} THEN parts
        ELSE LET b == CHOOSE i \in bad : \A j \in bad : i <= j
             IN  SubSeq(parts, 1, b - 1) \o SubSeq(parts, b + 1, Len(parts))

\* message.parts.filter(part => part.type === 'text' || part.type === 'image')
FilterParts(parts) == SelectSeq(parts, LAMBDA part : part.type \in {"text", "image"})

\* The shaping without the exemption of line 21 for the latest user message.
FilterHistoryForApiNoExemption(h) ==
    [index \in 1..Len(h) |->
        IF h[index].role # "user"
        THEN h[index]
        ELSE [h[index] EXCEPT !.parts = FilterParts(@)]]

\* function filterHistoryForApi(history)
filterHistoryForApi(h) ==
    [index \in 1..Len(h) |->
        IF index = LastUserMessageIndex(h) \/ h[index].role # "user"
        THEN h[index]
        ELSE [h[index] EXCEPT !.parts = FilterParts(@)]]

\* ----------------------------------------------------------- error objects

MkError(name, message, status) ==
    [kind |-> "error", name |-> name, message |-> message, status |-> status,
     usedApiKey |-> EmptyKey]

NoResult ==
    [kind |-> "none", name |-> "", message |-> <<>>, status |-> 0, usedApiKey |-> EmptyKey]

\* { reply, usage, usedApiKey: apiKey }
MkResponse(key) ==
    [kind |-> "response", name |-> "", message |-> <<>>, status |-> 0, usedApiKey |-> key]

\* The empty candidate list reported with the text of line 57.
ExhaustedErrorAsDepleted(model) == MkError("Error", <<"all-keys-depleted">>, 0)

\* throw new Error(`... 이 모델(${model})은 ...`) when usableKeys is empty.
ExhaustedError(model) == MkError("Error", <<"daily-limit-reached", model>>, 0)

\* throw new Error("모든 API 키의 할당량이 소진되었거나 유효하지 않습니다.")
DepletedError == MkError("Error", <<"all-keys-depleted">>, 0)

\* What fetch rejects with once the signal is aborted.
AbortError == MkError("AbortError", <<"The", "user", "aborted", "a", "request">>, 0)

\* What apiCall can throw otherwise: data.message with response.status.
GatewayErrors ==
    { MkError("Error", <<"Quota", "exceeded">>, 400),
      MkError("Error", <<"Too", "Many", "Requests">>, QuotaStatus),
      MkError("Error", <<"API", "request", "failed">>, 500) }

\* An exception of a view collaborator inside runChatLifecycle's try block.
UiError == MkError("TypeError", <<"render", "failed">>, 0)

\* executeChat's catch without the AbortError branch of line 111.
ErrorMessageTextPlain(error) == <<"error:">> \o error.message

\* executeChat's catch: '응답 생성이 취소되었습니다.' or `오류: ${error.message}`
ErrorMessageText(error) ==
    IF error.name = "AbortError" THEN <<"response-cancelled">>
    ELSE <<"error:">> \o error.message

\* runChatLifecycle's catch: `전송 중 치명적 오류 발생: ${error.message}`
FatalMessageText(error) == <<"fatal-lifecycle-error:">> \o error.message

\* ------------------------------------------------------------------- state

VARIABLES
    settings,                  \* appState.settings: apiKey, fallbackApiKeys, dailyLimits
    countRejections,           \* whether recordApiUsage counts a quota rejection as a call
    dailyUsage,                \* appState.dailyUsage.usageByKey, by <<keyId, model>>
    sessModel,                 \* session.model of each conversation
    history,                   \* session.history of each conversation
    nextMsgId,                 \* per conversation, the id Session.addMessage gives next
    loadingStates,             \* appState.loadingStates: TRUE = { status: 'thinking' }
    animating,                 \* conversations whose reply is being revealed
    activeSessionId,           \* appState.activeSessionId
    currentRequestController,  \* the run whose AbortController the handle holds, 0 = null
    run,                       \* one record per sendMessage/regenerate/resubmit call
    nRuns,                     \* calls that got past their guards so far
    toast,                     \* the notice Toast.show raised in the step just taken
    draining,                  \* the microtask queue is being drained
    attachedFiles,             \* appState.attachedFiles: the MIME types of the files
    lastSetter                 \* the run that last executed line 130

vars ==
    <<settings, countRejections, dailyUsage, sessModel, history, nextMsgId,
      loadingStates, animating, activeSessionId, currentRequestController, run,
      nRuns, toast, draining, attachedFiles, lastSetter>>

\* pc: where the call is suspended.  text, parts: sendMessage's messageText and
\* userMessageParts.  sent: the filteredHistory passed to callChatApi.  model,
\* cands, idx: callChatApi's model,
\* usableKeys and loop position.  aborted: the signal of the run's controller.
\* result: what callChatApi (or the view collaborator) ended in.  attempts: the
\* keys GeminiAPIService.chat was called with.  outcomes: what each of these
\* calls ended in.  rejected: the recordApiUsage calls of line 53.  appended:
\* the messages the lifecycle added to the conversation.
UnusedRun ==
    [pc |-> "unused", sid |-> NoSession, text |-> "", parts |-> <<>>,
     sent |-> <<>>, model |-> "none",
     cands |-> <<>>, idx |-> 0, aborted |-> FALSE, result |-> NoResult,
     attempts |-> <<>>, outcomes |-> <<>>, rejected |-> <<>>, appended |-> <<>>]

NewRun(sid, text) ==
    [UnusedRun EXCEPT !.pc = "prep", !.sid = sid, !.text = text]

\* sendMessage's locals at its await: the text and the parts prepared from it and
\* from the files attached at that moment.
NewSend(sid, text, files) ==
    [NewRun(sid, text) EXCEPT !.parts = PrepareMessageParts(text, files)]

\* The record of a call whose executeChat has returned (its locals are gone), at
\* pc: "final" before runChatLifecycle's finally block, "done" after it, when the
\* controller is dropped as well.
Returned(rec, pc) ==
    [UnusedRun EXCEPT !.pc = pc, !.sid = rec.sid,
                      !.aborted = (pc = "final" /\ rec.aborted),
                      !.result = rec.result, !.appended = rec.appended]

\* ----------------------------------------------- collaborators (not in src)

\* Session.recordApiUsage(appState, sessionId, model, usage, keyIdentifier, isQuota)
RecordApiUsage(usage, model, tokens, keyId, isQuota) ==
    LET k == <<keyId, model>>
        old == IF k \in DOMAIN usage THEN usage[k]
               ELSE [calls |-> 0, tokens |-> 0, quotaRejections |-> 0]
        new == [calls |-> old.calls + (IF isQuota /\ ~countRejections THEN 0 ELSE 1),
                tokens |-> old.tokens + tokens,
                quotaRejections |-> old.quotaRejections + (IF isQuota THEN 1 ELSE 0)]
    IN  [x \in DOMAIN usage \cup {k} |-> IF x = k THEN new ELSE usage[x]]

\* Session.addMessage(appState, sessionId, role, parts, metadata) on
\* ms = [h |-> histories, n |-> next message id, ls |-> loading states,
\* an |-> running reveal animations].
AddMessage(ms, sid, role, parts, modelUsed) ==
    IF sid \in SessionIds
    THEN [ms EXCEPT !.h[sid] = Append(@, [id |-> ms.n[sid], role |-> role,
                                          parts |-> parts, modelUsed |-> modelUsed]),
                    !.n[sid] = @ + 1]
    ELSE ms

\* The message a call of Session.addMessage on ms returns.
Added(ms, sid) == IF sid \in SessionIds THEN <<ms.h[sid][Len(ms.h[sid])]>> ELSE <<>>

\* Session.saveEditedMessage(appState, sessionId, messageId, newParts): the
\* target message's parts are replaced.
SaveEditedMessage(ms, sid, messageId, newParts) ==
    IF sid \in SessionIds
    THEN [ms EXCEPT !.h[sid] = [i \in 1..Len(@) |->
                                   IF @[i].id = messageId
                                   THEN [@[i] EXCEPT !.parts = newParts]
                                   ELSE @[i]]]
    ELSE ms

\* Session.deleteMessage(appState, sessionId, messageId): the target message is
\* removed from the history.
DeleteMessageFrom(ms, sid, messageId) ==
    IF sid \in SessionIds
    THEN [ms EXCEPT !.h[sid] = SelectSeq(@, LAMBDA m : m.id # messageId)]
    ELSE ms

\* Session.updateSessionModel(appState, modelId): the active conversation's
\* selected model becomes modelId.
UpdateSessionModel(sm, sid, modelId) ==
    IF sid \in SessionIds THEN [sm EXCEPT ![sid] = modelId] ELSE sm

\* AnimationManager.stop(sessionId): ends the reveal animation, which is what
\* releases the loading state of a conversation whose reply has arrived.
StopAnimation(ms, sid) ==
    IF ms.an[sid] THEN [ms EXCEPT !.an[sid] = FALSE, !.ls[sid] = FALSE] ELSE ms

\* ------------------------------------------------------------------- Init

Unlimited == [apiKey |-> K1, fallbackApiKeys |-> <<K3>>, dailyLimits |-> <<>>]

Limited == [apiKey |-> K1, fallbackApiKeys |-> <<K3>>, dailyLimits |-> ("m1" :> 1)]

NoKeys == [apiKey |-> EmptyKey, fallbackApiKeys |-> <<>>, dailyLimits |-> <<>>]

\* Two keys that end in the same four characters.
Colliding == [apiKey |-> K1, fallbackApiKeys |-> <<K2>>, dailyLimits |-> ("m1" :> 1)]

Configs ==
    { <<Unlimited, FALSE>>, <<Limited, FALSE>>, <<Limited, TRUE>>, <<NoKeys, FALSE>>,
      <<Colliding, FALSE>> }

\* Nothing in flight.
InitIdle ==
    /\ attachedFiles = <<>>
    /\ loadingStates = [s \in StatusKeys |-> FALSE]
    /\ animating = [s \in StatusKeys |-> FALSE]
    /\ currentRequestController = 0
    /\ run = [r \in Runs |-> UnusedRun]
    /\ nRuns = 0
    /\ toast = "none"
    /\ draining = FALSE
    /\ lastSetter = 0

\* What no configuration changes: empty conversations, nothing in flight.
InitRest ==
    /\ history = [s \in SessionIds |-> <<>>]
    /\ nextMsgId = [s \in SessionIds |-> 1]
    /\ InitIdle

Init ==
    /\ \E c \in Configs : settings = c[1] /\ countRejections = c[2]
    /\ dailyUsage = <<>>
    /\ sessModel = [s \in SessionIds |-> "m1"]
    /\ activeSessionId \in {"s1", NoSession}
    /\ InitRest

\* ------------------------------------------------------- the lifecycle

\* executeChat up to its first await, on the histories h: the session lookup, the
\* shaped history, the candidate list and the first GeminiAPIService.chat call.
ExecuteChatStart(base, sid, h) ==
    IF sid \notin SessionIds
    THEN Returned(base, "final")
    ELSE LET model == sessModel[sid]
             usable == UsableKeys(settings, dailyUsage, model)
             filteredHistory == filterHistoryForApi(h[sid])
         IN  IF usable = <<>>
             THEN [base EXCEPT !.pc = "settle", !.model = model,
                               !.sent = filteredHistory,
                               !.result = ExhaustedError(model)]
             ELSE [base EXCEPT !.pc = "call", !.model = model, !.cands = usable,
                               !.sent = filteredHistory,
                               !.idx = 1, !.attempts = <<usable[1]>>]

\* runChatLifecycle up to its first await, for run r whose record so far is base
\* and with ms the histories after the caller's own changes.  uiThrows: a view
\* collaborator (lines 133-135) throws, which the catch of line 137 handles.
RunChatLifecycle(r, sid, ms, base, uiThrows) ==
    /\ lastSetter' = r
    /\ loadingStates' = [ms.ls EXCEPT ![sid] = TRUE]
    /\ animating' = ms.an
    /\ IF uiThrows
       THEN LET ms2 == AddMessage(ms, sid, "system", <<TextPart(FatalMessageText(UiError))>>,
                                   "none")
            IN  /\ history' = ms2.h
                /\ nextMsgId' = ms2.n
                /\ currentRequestController' = 0
                /\ run' = [run EXCEPT ![r] =
                              Returned([base EXCEPT !.result = UiError,
                                                    !.appended = Added(ms2, sid)],
                                       "done")]
       ELSE /\ history' = ms.h
            /\ nextMsgId' = ms.n
            /\ currentRequestController' = r
            /\ run' = [run EXCEPT ![r] = ExecuteChatStart(base, sid, ms.h)]

\* The event loop.  A continuation of an `await` is a microtask: it is pending from
\* the moment its promise settles, and the microtask queue is drained before the
\* next task (a network completion, a timer) starts.  Exported handlers can be
\* called one after another within one task, before any continuation has run.
Pending(rs, r) == rs[r].pc \in {"prep", "settle", "final"}

QueueEmpty == \A r \in Runs : ~Pending(run, r)

InTask == ~draining

NewTask == ~draining /\ QueueEmpty

Drain == draining' = (\E r \in Runs : Pending(run', r))

Store == [h |-> history, n |-> nextMsgId, ls |-> loadingStates, an |-> animating]

\* sendMessage up to `await prepareMessageParts(...)`.
SendMessage(text) ==
    LET sessionId == activeSessionId IN
    /\ InTask
    /\ UNCHANGED draining
    /\ UNCHANGED <<settings, countRejections, attachedFiles, dailyUsage, sessModel, history,
                   nextMsgId,
                   currentRequestController, activeSessionId, lastSetter>>
    /\ IF sessionId = NoSession \/ loadingStates[sessionId]
       THEN /\ UNCHANGED <<loadingStates, animating, run, nRuns>>
            /\ toast' = "none"
       ELSE IF text = "" /\ Len(attachedFiles) = 0
       THEN /\ toast' = "empty-message"
            /\ UNCHANGED <<loadingStates, animating, run, nRuns>>
       ELSE /\ nRuns < MaxRuns
            /\ loadingStates' = StopAnimation(Store, sessionId).ls
            /\ animating' = StopAnimation(Store, sessionId).an
            /\ nRuns' = nRuns + 1
            /\ run' = [run EXCEPT ![nRuns + 1] = NewSend(sessionId, text, attachedFiles)]
            /\ toast' = "none"

\* sendMessage after the await: the user message, then runChatLifecycle.
SendResume(r, uiThrows) ==
    /\ run[r].pc = "prep"
    /\ LET sid == run[r].sid
           ms == AddMessage(Store, sid, "user", run[r].parts, "none")
       IN  RunChatLifecycle(r, sid, ms, run[r], uiThrows)
    /\ UNCHANGED <<settings, countRejections, dailyUsage, sessModel, activeSessionId,
                   nRuns>>
    /\ attachedFiles' = <<>>
    /\ toast' = "none"
    /\ Drain

\* history.findIndex(m => m.id === messageId), 1-based; 0 when there is none.
FindIndex(h, messageId) ==
    LET hits == {i \in 1..Len(h) : h[i].id = messageId}
    IN  IF hits = {} THEN 0 ELSE CHOOSE i \in hits : \A j \in hits : i <= j

\* h.findIndex(m => m.role === 'user'): the first user message instead of the last.
FindFirstUserIndex(h) ==
    LET hits == {i \in 1..Len(h) : h[i].role = "user"}
    IN  IF hits = {} THEN 0 ELSE CHOOSE i \in hits : \A j \in hits : i <= j

\* h.findLastIndex(m => m.role === 'user'), 1-based; 0 when there is none.
FindLastUserIndex(h) ==
    LET hits == {i \in 1..Len(h) : h[i].role = "user"}
    IN  IF hits = {} THEN 0 ELSE CHOOSE i \in hits : \A j \in hits : i >= j

\* regenerate's lines 169-172: the 1-based position of the user message the
\* history is cut after, 0 when regenerate returns without a run.
RegenerateCut(h, messageId) ==
    LET messageIndex == FindIndex(h, messageId)
        lastUserMessageIndex ==
            IF messageIndex = 0 THEN 0
            ELSE FindLastUserIndex(SubSeq(h, 1, messageIndex - 1))
    IN  IF \/ messageIndex < 2
           \/ h[messageIndex].role # "model"
           \/ lastUserMessageIndex = 0
        THEN 0
        ELSE lastUserMessageIndex

\* handleRegenerate -> regenerate(activeSessionId, messageId), whole: it has no
\* await before runChatLifecycle.
Regenerate(messageId, uiThrows) ==
    LET sessionId == activeSessionId IN
    /\ InTask
    /\ UNCHANGED draining
    /\ UNCHANGED <<settings, countRejections, attachedFiles, dailyUsage, sessModel,
                   activeSessionId>>
    /\ toast' = "none"
    /\ IF sessionId \notin SessionIds \/ loadingStates[sessionId]
       THEN /\ UNCHANGED <<history, nextMsgId, loadingStates, animating,
                           currentRequestController, run, nRuns, lastSetter>>
       ELSE LET h == history[sessionId]
                lastUserMessageIndex == RegenerateCut(h, messageId)
            IN  IF lastUserMessageIndex = 0
                THEN \* AnimationManager.stop ran before the target was looked up.
                     /\ loadingStates' = StopAnimation(Store, sessionId).ls
                     /\ animating' = StopAnimation(Store, sessionId).an
                     /\ UNCHANGED <<history, nextMsgId, currentRequestController, run,
                                    nRuns, lastSetter>>
                ELSE /\ nRuns < MaxRuns
                     /\ nRuns' = nRuns + 1
                     /\ RunChatLifecycle(
                            nRuns + 1, sessionId,
                            [StopAnimation(Store, sessionId) EXCEPT
                                !.h[sessionId] = SubSeq(h, 1, lastUserMessageIndex)],
                            NewRun(sessionId, ""), uiThrows)

\* handleGetResponse -> resubmit(activeSessionId), whole.
Resubmit(uiThrows) ==
    LET sessionId == activeSessionId IN
    /\ InTask
    /\ UNCHANGED draining
    /\ UNCHANGED <<settings, countRejections, attachedFiles, dailyUsage, sessModel,
                   activeSessionId>>
    /\ toast' = "none"
    /\ IF loadingStates[sessionId]
       THEN /\ UNCHANGED <<history, nextMsgId, loadingStates, animating,
                           currentRequestController, run, nRuns, lastSetter>>
       ELSE /\ nRuns < MaxRuns
            /\ nRuns' = nRuns + 1
            /\ RunChatLifecycle(nRuns + 1, sessionId, StopAnimation(Store, sessionId),
                                NewRun(sessionId, ""), uiThrows)

\* handleSaveEdit(messageId, newText), whole: the validation, the edit and the
\* resubmit it calls, up to runChatLifecycle's first await.
SaveEdit(messageId, newText, uiThrows) ==
    LET sessionId == activeSessionId IN
    /\ InTask
    /\ UNCHANGED draining
    /\ UNCHANGED <<settings, countRejections, attachedFiles, dailyUsage, sessModel,
                   activeSessionId>>
    /\ IF Trim(newText) = ""
       THEN /\ toast' = "empty-edit"
            /\ UNCHANGED <<history, nextMsgId, loadingStates, animating,
                           currentRequestController, run, nRuns, lastSetter>>
       ELSE /\ toast' = "none"
            /\ LET ms == SaveEditedMessage(Store, sessionId, messageId,
                                           <<TextPart(<<Trim(newText)>>)>>)
               IN  IF loadingStates[sessionId]
                   THEN /\ history' = ms.h
                        /\ UNCHANGED <<nextMsgId, loadingStates, animating,
                                       currentRequestController, run, nRuns, lastSetter>>
                   ELSE /\ nRuns < MaxRuns
                        /\ nRuns' = nRuns + 1
                        /\ RunChatLifecycle(nRuns + 1, sessionId,
                                            StopAnimation(ms, sessionId),
                                            NewRun(sessionId, ""), uiThrows)

\* handleDeleteMessage(messageId)
DeleteMessage(messageId) ==
    LET sessionId == activeSessionId IN
    /\ InTask
    /\ UNCHANGED draining
    /\ history' = (IF sessionId = NoSession THEN Store
                   ELSE DeleteMessageFrom(Store, sessionId, messageId)).h
    /\ UNCHANGED <<settings, countRejections, attachedFiles, dailyUsage, sessModel,
                   nextMsgId, loadingStates, animating, activeSessionId,
                   currentRequestController, run, nRuns, lastSetter>>
    /\ toast' = "none"

\* What one GeminiAPIService.chat call can end in: fetch rejects with AbortError
\* once the signal is aborted; otherwise the backend answers or fails.
GatewayOutcomes(r) ==
    IF run[r].aborted THEN {AbortError}
    ELSE {MkResponse(run[r].cands[run[r].idx])} \cup GatewayErrors

\* The loop of line 44 ending one key early.
CallChatApiStepShort(rec0, out) ==
    LET rec == [rec0 EXCEPT !.outcomes = Append(@, out)] IN
    IF out.kind = "response"
    THEN [rec EXCEPT !.pc = "settle", !.result = out]
    ELSE IF out.name = "AbortError"
    THEN [rec EXCEPT !.pc = "settle", !.result = out]
    ELSE IF IsQuotaError(out)
    THEN LET rec2 == [rec EXCEPT !.rejected =
                         Append(@, [keyId |-> getApiKeyIdentifier(rec.cands[rec.idx]),
                                    model |-> rec.model, tokens |-> 0, isQuota |-> TRUE])]
         IN  IF rec.idx + 1 < Len(rec.cands)
             THEN [rec2 EXCEPT !.idx = rec.idx + 1,
                               !.attempts = Append(@, rec.cands[rec.idx + 1])]
             ELSE [rec2 EXCEPT !.pc = "settle", !.result = DepletedError]
    ELSE [rec EXCEPT !.pc = "settle", !.result = out]

\* callChatApi from the end of one chat call to the next await: the try/catch of
\* lines 45-55, the loop's next call, or the end of callChatApi.
CallChatApiStep(rec0, out) ==
    LET rec == [rec0 EXCEPT !.outcomes = Append(@, out)] IN
    IF out.kind = "response"
    THEN [rec EXCEPT !.pc = "settle", !.result = out]
    ELSE IF out.name = "AbortError"
    THEN [rec EXCEPT !.pc = "settle", !.result = out]
    ELSE IF IsQuotaError(out)
    THEN LET rec2 == [rec EXCEPT !.rejected =
                         Append(@, [keyId |-> getApiKeyIdentifier(rec.cands[rec.idx]),
                                    model |-> rec.model, tokens |-> 0, isQuota |-> TRUE])]
         IN  IF rec.idx < Len(rec.cands)
             THEN [rec2 EXCEPT !.idx = rec.idx + 1,
                               !.attempts = Append(@, rec.cands[rec.idx + 1])]
             ELSE [rec2 EXCEPT !.pc = "settle", !.result = DepletedError]
    ELSE [rec EXCEPT !.pc = "settle", !.result = out]

\* A catch block that moves on to the next key without recording the rejection.
CallChatApiUsageUnrecorded(rec, out) == dailyUsage

\* The ledger after callChatApi handled the outcome (line 53 on a quota error).
CallChatApiUsage(rec, out) ==
    IF out.kind = "error" /\ out.name # "AbortError" /\ IsQuotaError(out)
    THEN RecordApiUsage(dailyUsage, rec.model, 0,
                        getApiKeyIdentifier(rec.cands[rec.idx]), TRUE)
    ELSE dailyUsage

\* The pending GeminiAPIService.chat call of run r ends.
GatewayReturn(r, out) ==
    /\ NewTask
    /\ run[r].pc = "call"
    /\ out \in GatewayOutcomes(r)
    /\ run' = [run EXCEPT ![r] = CallChatApiStep(run[r], out)]
    /\ dailyUsage' = CallChatApiUsage(run[r], out)
    /\ UNCHANGED <<settings, countRejections, attachedFiles, sessModel, history, nextMsgId,
                   loadingStates, animating, activeSessionId, currentRequestController,
                   nRuns, lastSetter>>
    /\ toast' = "none"
    /\ Drain

\* An executeChat that reconciles into the conversation in view.
ExecuteChatSessionInView(r) == activeSessionId

\* executeChat's sessionId parameter (line 61), as run r's call holds it.
ExecuteChatSessionId(r) == run[r].sid

\* executeChat after `await callChatApi(...)`: lines 96-107 on a response, the
\* catch of lines 108-119 on an error.
ExecuteChatResume(r) ==
    /\ run[r].pc = "settle"
    /\ LET sid == ExecuteChatSessionId(r)
           res == run[r].result
       IN  IF res.kind = "response"
           THEN LET ms == AddMessage(Store, sid, "model", <<TextPart(<<"reply">>)>>,
                                      sessModel[sid])
                IN  /\ dailyUsage' = RecordApiUsage(dailyUsage, sessModel[sid], 1,
                                         getApiKeyIdentifier(res.usedApiKey), FALSE)
                    /\ history' = ms.h
                    /\ nextMsgId' = ms.n
                    /\ animating' = [animating EXCEPT ![sid] = TRUE]
                    /\ toast' = IF activeSessionId # sid THEN "response-ready" ELSE "none"
                    /\ run' = [run EXCEPT ![r] =
                                  Returned([run[r] EXCEPT !.appended = Added(ms, sid)],
                                           "final")]
                    /\ UNCHANGED loadingStates
           ELSE LET ms == AddMessage(Store, sid, "system",
                                      <<TextPart(ErrorMessageText(res))>>, "none")
                IN  /\ history' = ms.h
                    /\ nextMsgId' = ms.n
                    /\ loadingStates' = [loadingStates EXCEPT ![sid] = FALSE]
                    /\ run' = [run EXCEPT ![r] =
                                  Returned([run[r] EXCEPT !.appended = Added(ms, sid)],
                                           "final")]
                    /\ UNCHANGED <<dailyUsage, animating>>
                    /\ toast' = "none"
    /\ UNCHANGED <<settings, countRejections, attachedFiles, sessModel, activeSessionId,
                   currentRequestController, nRuns, lastSetter>>
    /\ Drain

\* A finally block that leaves the controller where it is.
LifecycleFinallyKeepsHandle(r) ==
    /\ run[r].pc = "final"
    /\ run' = [run EXCEPT ![r] = Returned(run[r], "done")]
    /\ UNCHANGED <<settings, countRejections, attachedFiles, dailyUsage, sessModel, history,
                   nextMsgId, currentRequestController,
                   loadingStates, animating, activeSessionId, nRuns, lastSetter>>
    /\ toast' = "none"
    /\ Drain

\* runChatLifecycle after `await executeChat(...)`: the finally block.
LifecycleFinally(r) ==
    /\ run[r].pc = "final"
    /\ currentRequestController' = 0
    /\ run' = [run EXCEPT ![r] = Returned(run[r], "done")]
    /\ UNCHANGED <<settings, countRejections, attachedFiles, dailyUsage, sessModel, history,
                   nextMsgId,
                   loadingStates, animating, activeSessionId, nRuns, lastSetter>>
    /\ toast' = "none"
    /\ Drain

\* cancelCurrentRequest(): abort the controller the handle holds, if any.
CancelCurrentRequest(rs) ==
    IF currentRequestController # 0
    THEN [rs EXCEPT ![currentRequestController].aborted = TRUE]
    ELSE rs

\* handleCancelGeneration
CancelGeneration ==
    /\ InTask
    /\ UNCHANGED draining
    /\ run' = CancelCurrentRequest(run)
    /\ loadingStates' = StopAnimation(Store, activeSessionId).ls
    /\ animating' = StopAnimation(Store, activeSessionId).an
    /\ UNCHANGED <<settings, countRejections, attachedFiles, dailyUsage, sessModel, history,
                   nextMsgId,
                   activeSessionId, currentRequestController, nRuns, lastSetter>>
    /\ toast' = "none"

\* The reveal animation of a reply ends and releases the loading state.
AnimationComplete(s) ==
    /\ NewTask
    /\ UNCHANGED draining
    /\ animating[s]
    /\ animating' = [animating EXCEPT ![s] = FALSE]
    /\ loadingStates' = [loadingStates EXCEPT ![s] = FALSE]
    /\ UNCHANGED <<settings, countRejections, attachedFiles, dailyUsage, sessModel, history,
                   nextMsgId,
                   activeSessionId, currentRequestController, run, nRuns, lastSetter>>
    /\ toast' = "none"

\* handleFileSelect([file]) once the file has been read: it joins the buffer.
FileSelect(mime) ==
    /\ NewTask
    /\ UNCHANGED draining
    /\ Len(attachedFiles) < MaxFiles
    /\ attachedFiles' = Append(attachedFiles, mime)
    /\ UNCHANGED <<settings, countRejections, dailyUsage, sessModel, history, nextMsgId,
                   loadingStates, animating, activeSessionId, currentRequestController,
                   run, nRuns, lastSetter>>
    /\ toast' = "none"

\* handleSwitchSession(sessionId)
SwitchSession(s) ==
    /\ InTask
    /\ UNCHANGED draining
    /\ s # activeSessionId
    /\ activeSessionId' = s
    /\ UNCHANGED <<settings, countRejections, attachedFiles, dailyUsage, sessModel, history,
                   nextMsgId,
                   loadingStates, animating, currentRequestController, run, nRuns,
                   lastSetter>>
    /\ toast' = "none"

\* handleModelChange(modelId)
ModelChange(modelId) ==
    /\ InTask
    /\ UNCHANGED draining
    /\ sessModel' = UpdateSessionModel(sessModel, activeSessionId, modelId)
    /\ UNCHANGED <<settings, countRejections, attachedFiles, dailyUsage, history, nextMsgId,
                   loadingStates, animating, activeSessionId, currentRequestController,
                   run, nRuns, lastSetter>>
    /\ toast' = "none"

\* The message a regenerate button can name, and 0 for one that is gone.
MessageIds ==
    {0} \cup (IF activeSessionId \in SessionIds
              THEN {history[activeSessionId][i].id :
                        i \in 1..Len(history[activeSessionId])}
              ELSE {})

Next ==
    \/ \E text \in {"", "hi"} : SendMessage(text)
    \/ \E r \in Runs, t \in BOOLEAN : SendResume(r, t)
    \/ \E m \in MessageIds, t \in BOOLEAN : Regenerate(m, t)
    \/ \E t \in BOOLEAN : Resubmit(t)
    \/ \E r \in Runs, out \in {AbortError} \cup GatewayErrors \cup {MkResponse(k) : k \in {K1, K2, K3}} :
          GatewayReturn(r, out)
    \/ \E r \in Runs : ExecuteChatResume(r)
    \/ \E r \in Runs : LifecycleFinally(r)
    \/ CancelGeneration
    \/ \E s \in SessionIds : AnimationComplete(s)
    \/ \E s \in SessionIds : SwitchSession(s)

Spec == Init /\ [][Next]_vars

\* The runs that resubmit starts, in both conversations, with cancellation: the
\* orchestrator and the reconciliation of its outcome.
OrchNext ==
    \/ \E t \in BOOLEAN : Resubmit(t)
    \/ \E r \in Runs, out \in {AbortError} \cup GatewayErrors \cup {MkResponse(k) : k \in {K1, K2, K3}} :
          GatewayReturn(r, out)
    \/ \E r \in Runs : ExecuteChatResume(r)
    \/ \E r \in Runs : LifecycleFinally(r)
    \/ CancelGeneration
    \/ \E s \in SessionIds : AnimationComplete(s)
    \/ \E s \in SessionIds : SwitchSession(s)

OrchSpec == Init /\ [][OrchNext]_vars

\* ------------------------------------------- the input area and the editing

EditInit ==
    /\ settings = Unlimited
    /\ countRejections = FALSE
    /\ dailyUsage = <<>>
    /\ sessModel = [s \in SessionIds |-> "m1"]
    /\ activeSessionId = "s1"
    /\ InitRest

\* Sending with and without files, editing and deleting messages, and the runs
\* these start.
EditNext ==
    \/ FileSelect("application/pdf")
    \/ \E text \in {"", "hi"} : SendMessage(text)
    \/ \E r \in Runs : SendResume(r, FALSE)
    \/ \E m \in MessageIds, text \in {" ", " ed "} : SaveEdit(m, text, FALSE)
    \/ \E m \in MessageIds : DeleteMessage(m)
    \/ \E r \in Runs, out \in {MkResponse(K1), MkError("Error", <<"API", "request", "failed">>, 500)} :
          GatewayReturn(r, out)
    \/ \E r \in Runs : ExecuteChatResume(r)
    \/ \E r \in Runs : LifecycleFinally(r)
    \/ \E s \in SessionIds : AnimationComplete(s)

EditSpec == EditInit /\ [][EditNext]_vars

\* Filling the input area, sending, and edits that are submitted blank.
InputNext ==
    \/ FileSelect("application/pdf")
    \/ \E text \in {"", "hi"} : SendMessage(text)
    \/ \E r \in Runs : SendResume(r, FALSE)
    \/ \E m \in MessageIds : SaveEdit(m, " ", FALSE)
    \/ \E r \in Runs, out \in {MkResponse(K1), MkError("Error", <<"API", "request", "failed">>, 500)} :
          GatewayReturn(r, out)
    \/ \E r \in Runs : ExecuteChatResume(r)
    \/ \E r \in Runs : LifecycleFinally(r)
    \/ \E s \in SessionIds : AnimationComplete(s)

InputSpec == EditInit /\ [][InputNext]_vars

\* ------------------------------------------------ the model selector in use

\* One conversation in view, with and without a daily limit for m1.
ModelInit ==
    /\ settings \in {Unlimited, Limited}
    /\ countRejections = FALSE
    /\ dailyUsage = <<>>
    /\ sessModel = [s \in SessionIds |-> "m1"]
    /\ activeSessionId = "s1"
    /\ InitRest

\* The runs resubmit starts while the user picks models and switches
\* conversations.
ModelNext ==
    \/ Resubmit(FALSE)
    \/ \E m \in Models : ModelChange(m)
    \/ \E r \in Runs, out \in {MkResponse(k) : k \in {K1, K3}} \cup
                               {MkError("Error", <<"Too", "Many", "Requests">>, QuotaStatus)} :
          GatewayReturn(r, out)
    \/ \E r \in Runs : ExecuteChatResume(r)
    \/ \E r \in Runs : LifecycleFinally(r)
    \/ \E s \in SessionIds : AnimationComplete(s)
    \/ \E s \in SessionIds : SwitchSession(s)

ModelSpec == ModelInit /\ [][ModelNext]_vars

\* ------------------------------------------------- key selection on its own

SeqsUpTo(S, n) == UNION {[1..k -> S] : k \in 0..n}

\* appState.settings: any primary key, any short list of fallback keys (blank
\* entries included), no limit for m1 or a limit of 0..MaxLimit.
SelSettings ==
    {[apiKey |-> p, fallbackApiKeys |-> f, dailyLimits |-> l] :
        p \in {EmptyKey, K1},
        f \in SeqsUpTo({EmptyKey, K1, K2, K3}, MaxFallbacks),
        l \in {<<>>} \cup {("m1" :> n) : n \in 0..MaxLimit}}

\* appState.dailyUsage.usageByKey: empty, or with a call count for each key.
SelLedgers ==
    {<<>>} \cup
    [{<<getApiKeyIdentifier(k), "m1">> : k \in {K1, K3}} ->
        [calls : 0..MaxUsage, tokens : {0}, quotaRejections : {0}]]

SelInit ==
    /\ settings \in SelSettings
    /\ countRejections = FALSE
    /\ dailyUsage \in SelLedgers
    /\ sessModel \in [SessionIds -> Models]
    /\ activeSessionId = "s1"
    /\ InitRest

\* resubmit computes usableKeys from the settings and the ledger as they are.
SelNext ==
    \/ Resubmit(FALSE)
    \/ \E s \in SessionIds : SwitchSession(s)

SelSpec == SelInit /\ [][SelNext]_vars

\* ------------------------------------------------------ regenerate on its own

\* A stored message of the given role, as Session.addMessage makes them.
MkMessage(id, role) ==
    [id |-> id, role |-> role,
     parts |-> <<TextPart(IF role = "model" THEN <<"reply">> ELSE <<"hi">>)>>,
     modelUsed |-> (IF role = "model" THEN "m1" ELSE "none")]

\* session.history: any sequence of up to MaxHist messages of any roles.
RegenHistories ==
    UNION {{[i \in 1..n |-> MkMessage(i, roles[i])] :
               roles \in [1..n -> {"user", "model", "system"}]} : n \in 0..MaxHist}

RegenInit ==
    /\ settings = Unlimited
    /\ countRejections = FALSE
    /\ dailyUsage = <<>>
    /\ sessModel = [s \in SessionIds |-> "m1"]
    /\ activeSessionId = "s1"
    /\ \E h \in RegenHistories :
          /\ history = [s \in SessionIds |-> IF s = "s1" THEN h ELSE <<>>]
          /\ nextMsgId = [s \in SessionIds |-> IF s = "s1" THEN Len(h) + 1 ELSE 1]
    /\ InitIdle

\* regenerate and the runs it starts, on every stored history.
RegenNext ==
    \/ \E m \in MessageIds, t \in BOOLEAN : Regenerate(m, t)
    \/ \E r \in Runs, out \in {AbortError} \cup GatewayErrors \cup {MkResponse(k) : k \in {K1, K2, K3}} :
          GatewayReturn(r, out)
    \/ \E r \in Runs : ExecuteChatResume(r)
    \/ \E r \in Runs : LifecycleFinally(r)
    \/ \E s \in SessionIds : AnimationComplete(s)

RegenSpec == RegenInit /\ [][RegenNext]_vars

\* --------------------------------------------------------- shaping on its own

\* What a stored message can hold: a user message carries text, images and PDF
\* attachments in any order; model and system messages carry their one text part.
ShapeContents ==
    {[role |-> "user", parts |-> p] :
        p \in UNION {[1..n -> {TextPart(<<"hi">>), FilePart("image"),
                                FilePart("pdf-attachment")}] : n \in 1..MaxParts}}
    \cup {[role |-> "model", parts |-> <<TextPart(<<"reply">>)>>],
          [role |-> "system", parts |-> <<TextPart(<<"error:">>)>>]}

\* session.history holding the contents c, one message each, ids in order.
ShapeHistory(c) ==
    [i \in DOMAIN c |-> [id |-> i, role |-> c[i].role, parts |-> c[i].parts,
                         modelUsed |-> IF c[i].role = "model" THEN "m1" ELSE "none"]]

ShapeInit ==
    /\ settings = Unlimited
    /\ countRejections = FALSE
    /\ dailyUsage = <<>>
    /\ sessModel = [s \in SessionIds |-> "m1"]
    /\ activeSessionId = "s1"
    /\ \E n \in 0..MaxShape : \E c \in [1..n -> ShapeContents] :
          /\ history = [s \in SessionIds |-> IF s = "s1" THEN ShapeHistory(c) ELSE <<>>]
          /\ nextMsgId = [s \in SessionIds |-> IF s = "s1" THEN n + 1 ELSE 1]
    /\ InitIdle

\* resubmit shapes the stored history and dispatches it.
ShapeNext == Resubmit(FALSE)

ShapeSpec == ShapeInit /\ [][ShapeNext]_vars

\* ------------------------------------------------------------- properties

\* The outcome classes of one gateway call: a reply, a cancellation, a quota
\* rejection (status 429 or a message that mentions quota), any other failure.
OutcomeClass(out) ==
    IF out.kind = "response" THEN "Success"
    ELSE IF out.name = "AbortError" THEN "Cancelled"
    ELSE IF \/ out.status = QuotaStatus
            \/ \E i \in 1..Len(out.message) : ToLowerCase(out.message[i]) = "quota"
         THEN "QuotaExceeded"
    ELSE "RequestFailed"

CancelledText == <<"response-cancelled">>

\* C1: at most one backend request is in flight per conversation at any time,
\* whichever of sendMessage, regenerate and resubmit made the calls.
C1_OneRequestPerConversation ==
    \A s \in SessionIds :
        Cardinality({r \in Runs : run[r].sid = s /\ run[r].pc = "call"}) <= 1

\* C2: once a candidate's gateway call ends in a failure that is no quota
\* rejection, or in a cancellation, that candidate is the last one attempted and
\* the orchestrator has ended with that very error.
C2_FailFast ==
    \A r \in Runs :
        \A i \in 1..Len(run[r].outcomes) :
            OutcomeClass(run[r].outcomes[i]) \in {"RequestFailed", "Cancelled"}
            => /\ i = Len(run[r].outcomes)
               /\ Len(run[r].attempts) = i
               /\ run[r].attempts = SubSeq(run[r].cands, 1, i)
               /\ run[r].pc = "settle"
               /\ run[r].result = run[r].outcomes[i]

\* A call failed on the first candidate while a second one was left untried.
C2_Witness ==
    \E r \in Runs :
        /\ run[r].pc = "settle"
        /\ Len(run[r].outcomes) = 1
        /\ OutcomeClass(run[r].outcomes[1]) = "RequestFailed"
        /\ Len(run[r].cands) = 2

\* C3: as long as every call of a run has ended in a quota rejection, the
\* candidates were attempted once each in list order and one zero-usage
\* quota-rejection entry was recorded per rejected candidate; the run ends only
\* when every candidate was attempted, and then with all-credentials-depleted.
C3_AllRejectedThenDepleted ==
    \A r \in Runs :
        ( /\ run[r].pc \in {"call", "settle"}
          /\ run[r].cands # <<>>
          /\ \A i \in 1..Len(run[r].outcomes) :
                OutcomeClass(run[r].outcomes[i]) = "QuotaExceeded" )
        => /\ run[r].rejected =
                 [i \in 1..Len(run[r].outcomes) |->
                     [keyId |-> getApiKeyIdentifier(run[r].cands[i]),
                      model |-> run[r].model, tokens |-> 0, isQuota |-> TRUE]]
           /\ \A i \in 1..Len(run[r].outcomes) :
                 LET k == <<getApiKeyIdentifier(run[r].cands[i]), run[r].model>>
                 IN  k \in DOMAIN dailyUsage /\ dailyUsage[k].quotaRejections >= 1
           /\ IF run[r].pc = "call"
              THEN /\ Len(run[r].outcomes) < Len(run[r].cands)
                   /\ run[r].attempts = SubSeq(run[r].cands, 1, Len(run[r].outcomes) + 1)
              ELSE /\ Len(run[r].outcomes) = Len(run[r].cands)
                   /\ run[r].attempts = run[r].cands
                   /\ run[r].result = DepletedError

\* Both of two candidates were rejected for quota.
C3_Witness ==
    \E r \in Runs :
        /\ run[r].pc = "settle"
        /\ Len(run[r].cands) = 2
        /\ Len(run[r].outcomes) = 2
        /\ \A i \in 1..2 : OutcomeClass(run[r].outcomes[i]) = "QuotaExceeded"

C4_Credentials(st) == <<st.apiKey>> \o st.fallbackApiKeys

C4_Unlimited(st, model) ==
    model \notin DOMAIN st.dailyLimits \/ st.dailyLimits[model] = 0

C4_Count(usage, key, model) ==
    LET k == <<getApiKeyIdentifier(key), model>>
    IN  IF k \in DOMAIN usage THEN usage[k].calls ELSE 0

\* The positions of the configured credentials that are non-empty and below the limit.
C4_Eligible(st, usage, model) ==
    {i \in 1..Len(C4_Credentials(st)) :
        /\ C4_Credentials(st)[i] # EmptyKey
        /\ \/ C4_Unlimited(st, model)
           \/ C4_Count(usage, C4_Credentials(st)[i], model) < st.dailyLimits[model]}

\* The j-th smallest element of a set of positions.
C4_Nth(S, j) == CHOOSE i \in S : Cardinality({k \in S : k <= i}) = j

\* C4: the candidate list holds exactly the non-empty credentials whose recorded
\* call count for the model is strictly below the limit, or every non-empty
\* credential when the limit is 0 or absent, in the order of the configured list.
C4_SelectorExact ==
    \A r \in Runs :
        run[r].model # "none"
        => LET E == C4_Eligible(settings, dailyUsage, run[r].model)
           IN  /\ Len(run[r].cands) = Cardinality(E)
               /\ \A j \in 1..Len(run[r].cands) :
                     run[r].cands[j] = C4_Credentials(settings)[C4_Nth(E, j)]

\* A limit kept one non-empty credential and removed another.
C4_Witness ==
    \E r \in Runs :
        /\ run[r].model # "none"
        /\ ~C4_Unlimited(settings, run[r].model)
        /\ Len(run[r].cands) = 1
        /\ Cardinality({i \in 1..Len(C4_Credentials(settings)) :
                           C4_Credentials(settings)[i] # EmptyKey}) = 2

\* C5: with an empty candidate list the orchestrator fails at once with an error
\* that names the model, after no gateway call and no ledger entry; that error is
\* not the all-credentials-depleted error, which is raised only after at least
\* one attempt and after every candidate was rejected for quota.
C5_ExhaustedIsImmediate ==
    \A r \in Runs :
        /\ (run[r].pc \in {"call", "settle"} /\ run[r].cands = <<>>)
           => /\ run[r].pc = "settle"
              /\ run[r].result.kind = "error"
              /\ run[r].model \in Range(run[r].result.message)
              /\ run[r].result # DepletedError
              /\ run[r].attempts = <<>>
              /\ run[r].outcomes = <<>>
              /\ run[r].rejected = <<>>
        /\ (run[r].pc = "settle" /\ run[r].result = DepletedError)
           => /\ Len(run[r].attempts) >= 1
              /\ run[r].attempts = run[r].cands
              /\ Len(run[r].outcomes) = Len(run[r].cands)
              /\ \A i \in 1..Len(run[r].outcomes) :
                    OutcomeClass(run[r].outcomes[i]) = "QuotaExceeded"

\* A call found no usable credential.
C5_Witness ==
    \E r \in Runs :
        /\ run[r].pc = "settle"
        /\ run[r].model # "none"
        /\ run[r].cands = <<>>
        /\ run[r].outcomes = <<>>

\* C6: a run of an existing conversation that ends in a failure, the unexpected
\* error of the lifecycle itself included, has appended one system message to the
\* conversation and left its status idle.
C6_FailureReconciled ==
    [][\A r \in Runs :
          ( /\ run[r].pc \notin {"final", "done"}
            /\ run'[r].pc \in {"final", "done"}
            /\ run'[r].result.kind = "error"
            /\ run'[r].sid \in SessionIds )
          => /\ Len(run'[r].appended) = 1
             /\ run'[r].appended[1].role = "system"
             /\ run'[r].appended[1] \in Range(history'[run'[r].sid])
             /\ ~loadingStates'[run'[r].sid]]_vars

\* C7: a conversation with no run under way and no reply being revealed is idle:
\* Thinking ends on success and on every failure path.
C7_ThinkingEnds ==
    \A s \in SessionIds :
        ( /\ \A r \in Runs : run[r].sid = s => run[r].pc \in {"unused", "done"}
          /\ ~animating[s] )
        => ~loadingStates[s]

\* C8: a lifecycle run that has ended left exactly one new message, of the model
\* role after a reply and of the system role after a failure.
C8_OneMessagePerRun ==
    \A r \in Runs :
        run[r].pc = "done"
        => /\ Len(run[r].appended) = 1
           /\ run[r].appended[1].role =
                 (IF run[r].result.kind = "response" THEN "model" ELSE "system")

\* C9: while the request of the run that last set the cancellation handle is in
\* flight, cancelCurrentRequest signals that run.
C9_CancelReachesLatestRun ==
    (lastSetter # 0 /\ run[lastSetter].pc = "call")
    => CancelCurrentRequest(run)[lastSetter].aborted

\* C10: a cancelled gateway call is not handled as a quota rejection: it records
\* no rejection entry, no further candidate is tried, and the run appends the
\* response-cancelled system message, which no other failure produces.
C10_CancelledIsNotQuota ==
    \A r \in Runs :
        /\ \A i \in 1..Len(run[r].outcomes) :
              OutcomeClass(run[r].outcomes[i]) = "Cancelled"
              => /\ Len(run[r].rejected) = i - 1
                 /\ Len(run[r].attempts) = i
                 /\ run[r].pc = "settle"
                 /\ run[r].result = run[r].outcomes[i]
        /\ (run[r].pc \in {"final", "done"} /\ run[r].result.kind = "error")
           => IF run[r].result.name = "AbortError"
              THEN /\ Len(run[r].appended) = 1
                   /\ run[r].appended[1].role = "system"
                   /\ run[r].appended[1].parts = <<TextPart(CancelledText)>>
              ELSE \A i \in 1..Len(run[r].appended) :
                      run[r].appended[i].parts # <<TextPart(CancelledText)>>

\* A cancelled run has ended with the response-cancelled message in its conversation.
C10_Witness ==
    \E r \in Runs :
        /\ run[r].pc = "done"
        /\ run[r].result.name = "AbortError"
        /\ Len(run[r].appended) = 1
        /\ run[r].appended[1] \in Range(history[run[r].sid])

\* The ledger's token count for a credential and a model.
LedgerTokens(usage, key, model) ==
    LET k == <<getApiKeyIdentifier(key), model>>
    IN  IF k \in DOMAIN usage THEN usage[k].tokens ELSE 0

\* C11: when a run whose earlier candidates were rejected for quota receives a
\* reply, the reply is that of the candidate attempted last, exactly one
\* model-role message and no system message is appended, and the real token
\* usage is recorded once, for the credential that replied and for no rejected
\* credential.
C11_FallbackSuccess ==
    [][\A r \in Runs :
          ( /\ run[r].pc = "settle"
            /\ run'[r].pc = "final"
            /\ run[r].result.kind = "response"
            /\ Len(run[r].rejected) >= 1 )
          => LET used == run[r].result.usedApiKey
                 sid == run[r].sid
                 n == Len(run[r].outcomes)
             IN  /\ used = run[r].cands[n]
                 /\ run[r].attempts = SubSeq(run[r].cands, 1, n)
                 /\ Len(run'[r].appended) = 1
                 /\ run'[r].appended[1].role = "model"
                 /\ history'[sid] = Append(history[sid], run'[r].appended[1])
                 /\ LedgerTokens(dailyUsage', used, run[r].model)
                       = LedgerTokens(dailyUsage, used, run[r].model) + 1
                 /\ \A i \in 1..(n - 1) :
                       LedgerTokens(dailyUsage', run[r].cands[i], run[r].model)
                          = LedgerTokens(dailyUsage, run[r].cands[i], run[r].model)]_vars

\* The target is a model message with a user message somewhere before it.
C12_Valid(h, m) ==
    \E i \in 1..Len(h) :
        /\ h[i].id = m
        /\ h[i].role = "model"
        /\ \E j \in 1..(i - 1) : h[j].role = "user"

\* The position of the nearest user message before the target.
C12_Nearest(h, m) ==
    CHOOSE k \in 1..Len(h) :
        \E i \in 1..Len(h) :
            /\ h[i].id = m
            /\ k < i
            /\ h[k].role = "user"
            /\ \A j \in (k + 1)..(i - 1) : h[j].role # "user"

\* C12: regenerate on an idle conversation with a model-role target that has a
\* user message before it starts a run on the history cut after the nearest
\* such user message, everything up to it unchanged, and regenerating the reply
\* of that run would cut at the same place; with any other target the history
\* stays as it is and no run starts.
C12_RegenerateTruncates ==
    [][\A m \in MessageIds :
          ( /\ activeSessionId \in SessionIds
            /\ ~loadingStates[activeSessionId]
            /\ Regenerate(m, FALSE) )
          => LET sid == activeSessionId
                 h == history[sid]
             IN  IF C12_Valid(h, m)
                 THEN /\ history'[sid] = SubSeq(h, 1, C12_Nearest(h, m))
                      /\ nRuns' = nRuns + 1
                      /\ run'[nRuns'].sid = sid
                      /\ run'[nRuns'].pc \in {"call", "settle"}
                      /\ LET reply == MkMessage(nextMsgId'[sid], "model")
                         IN  RegenerateCut(Append(history'[sid], reply), reply.id)
                                = Len(history'[sid])
                 ELSE /\ history' = history
                      /\ run' = run
                      /\ nRuns' = nRuns]_vars

\* A run started by regenerate is in flight on a history that was cut after the
\* second of two user messages.
C12_Witness ==
    \E r \in Runs :
        LET h == history[run[r].sid] IN
        /\ run[r].pc = "call"
        /\ run[r].text = ""
        /\ Len(h) >= 2
        /\ h[Len(h)].role = "user"
        /\ Cardinality({i \in 1..Len(h) : h[i].role = "user"}) >= 2
        /\ Len(h) + 1 < nextMsgId[run[r].sid]

\* C13: shaping is idempotent and keeps the messages: the history a run was
\* dispatched with is unchanged by shaping it again, and it has the stored
\* history's messages, as many and in the same order.
C13_ShapingIdempotent ==
    \A r \in Runs :
        (run[r].pc \in {"call", "settle"} /\ run[r].sid \in SessionIds)
        => LET out == run[r].sent
               h == history[run[r].sid]
           IN  /\ filterHistoryForApi(out) = out
               /\ Len(out) = Len(h)
               /\ \A i \in 1..Len(h) :
                     out[i].id = h[i].id /\ out[i].role = h[i].role

\* A run was dispatched with a history from which two parts of one message were
\* removed.
C13_Witness ==
    \E r \in Runs :
        /\ run[r].pc = "call"
        /\ \E i \in 1..Len(run[r].sent) :
              Len(run[r].sent[i].parts) + 2 = Len(history[run[r].sid][i].parts)

\* The position of the most recent user message, 0 when there is none.
C14_LatestUser(h) ==
    IF \E i \in 1..Len(h) : h[i].role = "user"
    THEN CHOOSE k \in 1..Len(h) :
            h[k].role = "user" /\ \A j \in (k + 1)..Len(h) : h[j].role # "user"
    ELSE 0

\* C14: in the history a run was dispatched with, the most recent user message
\* has the parts it has in the stored history, and every other message, of any
\* role, has text and image parts only.
C14_OnlyLatestKeepsAttachments ==
    \A r \in Runs :
        (run[r].pc \in {"call", "settle"} /\ run[r].sid \in SessionIds)
        => LET out == run[r].sent
               h == history[run[r].sid]
           IN  /\ Len(out) = Len(h)
               /\ \A i \in 1..Len(h) :
                     IF i = C14_LatestUser(h)
                     THEN out[i].parts = h[i].parts
                     ELSE \A j \in 1..Len(out[i].parts) :
                             out[i].parts[j].type \in {"text", "image"}

\* A run was dispatched with the attachment of the latest user message kept and
\* the attachment of an earlier one removed.
C14_Witness ==
    \E r \in Runs :
        LET h == history[run[r].sid] IN
        /\ run[r].pc = "call"
        /\ C14_LatestUser(h) >= 2
        /\ \E j \in 1..Len(h[C14_LatestUser(h)].parts) :
              run[r].sent[C14_LatestUser(h)].parts[j].type = "pdf-attachment"
        /\ \E i \in 1..(C14_LatestUser(h) - 1) :
              \E j \in 1..Len(h[i].parts) : h[i].parts[j].type = "pdf-attachment"

\* C15: a send with empty text and no attached file, and an edit whose text is
\* empty after trimming, raise their validation notice and change nothing:
\* histories, statuses, the attached files, the cancellation handle and the
\* runs stay as they are (the edit does not reach resubmit).
C15_ValidationChangesNothing ==
    [][ /\ ( /\ activeSessionId \in SessionIds
             /\ ~loadingStates[activeSessionId]
             /\ attachedFiles = <<>>
             /\ SendMessage("") )
           => /\ toast' = "empty-message"
              /\ UNCHANGED <<history, nextMsgId, loadingStates, animating, attachedFiles,
                             currentRequestController, run, nRuns, lastSetter>>
        /\ \A m \in MessageIds :
              SaveEdit(m, " ", FALSE)
              => /\ toast' = "empty-edit"
                 /\ UNCHANGED <<history, nextMsgId, loadingStates, animating,
                                attachedFiles, currentRequestController, run, nRuns,
                                lastSetter>> ]_vars

\* A blank edit was refused in a conversation that has messages, with a file
\* waiting in the input area.
C15_Witness ==
    /\ toast = "empty-edit"
    /\ activeSessionId \in SessionIds
    /\ Len(history[activeSessionId]) >= 1
    /\ attachedFiles # <<>>

\* A lifecycle run is in flight from runChatLifecycle's entry to the end of its
\* finally block.
InFlight(rs, r) == rs[r].pc \in {"call", "settle", "final"}

\* C16: when no lifecycle run is in flight the cancellation handle is empty, so
\* cancelCurrentRequest signals nothing, and a cancel then changes no run, no
\* history, raises no notice and leaves the status of every conversation that
\* is not revealing a reply; and the step in which any run finishes, whatever
\* its outcome, leaves the handle cleared.
C16_CancelIdleAndHandleCleared ==
    [][ /\ (\A r \in Runs : ~InFlight(run', r)) => currentRequestController' = 0
        /\ \A r \in Runs :
              (run[r].pc # "done" /\ run'[r].pc = "done") => currentRequestController' = 0
        /\ (CancelGeneration /\ \A r \in Runs : ~InFlight(run, r))
           => /\ run' = run
              /\ history' = history
              /\ toast' = "none"
              /\ \A s \in StatusKeys :
                    ~animating[s] => loadingStates'[s] = loadingStates[s] ]_vars

\* A cancelled run and a run that got its reply have both finished, no run is
\* in flight and the handle is empty.
C16_Witness ==
    /\ \E r \in Runs : run[r].pc = "done" /\ run[r].result = AbortError
    /\ \E r \in Runs : run[r].pc = "done" /\ run[r].result.kind = "response"
    /\ \A r \in Runs : ~InFlight(run, r)
    /\ currentRequestController = 0

\* C17: send, regenerate and resubmit for a conversation that does not exist
\* (no active conversation) have no effect: the absent identifier never gets
\* a Thinking entry, no lifecycle run is started for it, so no handle is
\* allocated for it, and no request is dispatched for it.
C17_NoEffectWithoutConversation ==
    /\ ~loadingStates[NoSession]
    /\ \A r \in Runs :
          run[r].pc # "unused" => /\ run[r].sid \in SessionIds
                                  /\ currentRequestController = r => run[r].sid \in SessionIds
    /\ \A r \in Runs : run[r].sid \notin SessionIds => run[r].attempts = <<>>

\* The quota rejections the ledger holds for a key identifier and a model.
LedgerRejections(keyId, model) ==
    IF <<keyId, model>> \in DOMAIN dailyUsage
    THEN dailyUsage[<<keyId, model>>].quotaRejections
    ELSE 0

\* C18: within one run the keys attempted are the first keys of the candidate
\* list, in list order; while the run awaits the gateway exactly one call is
\* outstanding and afterwards none; and every attempt before the latest ended
\* in a quota error whose zero-usage rejection is in the ledger.
C18_AttemptsInOrder ==
    \A r \in Runs :
        run[r].pc \in {"call", "settle"} /\ run[r].cands # <<>> =>
            LET rec == run[r]
                n == Len(rec.attempts)
            IN  /\ n \in 1..Len(rec.cands)
                /\ rec.attempts = SubSeq(rec.cands, 1, n)
                /\ Len(rec.outcomes) = (IF rec.pc = "call" THEN n - 1 ELSE n)
                /\ \A i \in 1..(n - 1) :
                      /\ rec.outcomes[i].kind = "error"
                      /\ IsQuotaError(rec.outcomes[i])
                      /\ rec.rejected[i] = [keyId |-> getApiKeyIdentifier(rec.cands[i]),
                                            model |-> rec.model, tokens |-> 0,
                                            isQuota |-> TRUE]
                      /\ LedgerRejections(rec.rejected[i].keyId, rec.model) >= 1
                /\ Len(rec.rejected) \in {n - 1, n}

\* The call with the fallback key is outstanding after the primary key's call
\* ended in a quota error.
C18_Witness ==
    \E r \in Runs :
        /\ run[r].pc = "call"
        /\ Len(run[r].attempts) = 2
        /\ Len(run[r].outcomes) = 1
        /\ LedgerRejections(getApiKeyIdentifier(run[r].cands[1]), run[r].model) >= 1

\* C19: while a conversation is Thinking, from the dispatch of its request to
\* the reconciliation of the outcome, no step changes its history: a send, a
\* regenerate, a resubmit, an edit or a delete leaves the history the request
\* was shaped from.
C19_HistoryFrozenWhileThinking ==
    [][ \A s \in SessionIds :
            (\E r \in Runs : run[r].sid = s /\ run[r].pc = "call")
            => history'[s] = history[s] ]_vars

\* C20: for a model with a daily limit L > 0, the successful calls the ledger
\* holds for a key and that model never exceed L, however the runs of different
\* conversations interleave (rejections are not counted as calls here).
C20_LimitNeverExceeded ==
    ~countRejections =>
        \A k \in DOMAIN dailyUsage :
            ModelLimit(settings, k[2]) > 0 => dailyUsage[k].calls <= ModelLimit(settings, k[2])

\* C21: when a run gets its reply, the model recorded with the usage and in
\* the appended message's modelUsed is the model the request was sent with,
\* whatever the conversation's selected model has become meanwhile.
C21_RecordedModelIsSentModel ==
    [][ \A r \in Runs :
            (/\ run[r].pc = "settle"
             /\ run[r].result.kind = "response"
             /\ run'[r].pc = "final")
            => LET key == <<getApiKeyIdentifier(run[r].result.usedApiKey), run[r].model>>
               IN  /\ run'[r].appended # <<>>
                   /\ run'[r].appended[1].modelUsed = run[r].model
                   /\ key \in DOMAIN dailyUsage'
                   /\ dailyUsage'[key].calls = UsageCalls(dailyUsage, key[1], key[2]) + 1 ]_vars

\* Run r's executeChat reconciles its outcome in this step.
Reconciles(r) == run[r].pc = "settle" /\ run'[r].pc = "final"

\* C22: the outcome of a run goes to the conversation that started it, whatever
\* conversation is in view: its history gets the one model or system message,
\* on a failure its status is cleared, the usage is recorded for its model, and
\* no other conversation's history or status changes; and the response-ready
\* notice is raised exactly by a successful run whose conversation is not the
\* one in view.
C22_OutcomeToOriginator ==
    [][ /\ \A r \in Runs :
              Reconciles(r) =>
                  LET sid == run[r].sid
                      ok == run[r].result.kind = "response"
                  IN  /\ Len(history'[sid]) = Len(history[sid]) + 1
                      /\ SubSeq(history'[sid], 1, Len(history[sid])) = history[sid]
                      /\ history'[sid][Len(history'[sid])].role =
                             (IF ok THEN "model" ELSE "system")
                      /\ ~ok => ~loadingStates'[sid]
                      /\ ok => /\ animating'[sid]
                               /\ <<getApiKeyIdentifier(run[r].result.usedApiKey),
                                    sessModel[sid]>> \in DOMAIN dailyUsage'
                      /\ \A s \in StatusKeys \ {sid} :
                            /\ loadingStates'[s] = loadingStates[s]
                            /\ animating'[s] = animating[s]
                      /\ \A s \in SessionIds \ {sid} : history'[s] = history[s]
                      /\ (toast' = "response-ready") <=> (ok /\ activeSessionId # sid)
        /\ (toast' = "response-ready") =>
              \E r \in Runs : /\ Reconciles(r)
                              /\ run[r].result.kind = "response"
                              /\ activeSessionId # run[r].sid ]_vars

\* A run got its reply while another conversation was in view: the reply is in
\* the run's conversation, the viewed one has no message, the notice is up.
C22_Witness ==
    \E r \in Runs :
        /\ run[r].pc = "final"
        /\ run[r].result.kind = "response"
        /\ run[r].sid \in SessionIds
        /\ activeSessionId \in SessionIds \ {run[r].sid}
        /\ toast = "response-ready"
        /\ history[run[r].sid] # <<>>
        /\ history[activeSessionId] = <<>>

\* The configured keys other than key whose eligibility for some model differs
\* between the ledgers u and v.
EligibilityChanged(u, v, key) ==
    {k \in Range(AllKeys(settings)) \ {key} :
        \E m \in Models : KeyIsUsable(settings, u, m, k) # KeyIsUsable(settings, v, m, k)}

\* C23: whether a key is a candidate depends on that key's own usage only: a
\* step that records usage for one key, a reply's or a quota rejection's,
\* changes the eligibility of no other configured key (the identifiers of
\* distinct keys are distinct ledger entries).
C23_EligibilityIsPerCredential ==
    [][ \A r \in Runs :
            /\ (Reconciles(r) /\ run[r].result.kind = "response")
               => EligibilityChanged(dailyUsage, dailyUsage', run[r].result.usedApiKey) = {}
            /\ (run[r].pc = "call" /\ run'[r] # run[r] /\ dailyUsage' # dailyUsage)
               => EligibilityChanged(dailyUsage, dailyUsage', run[r].cands[run[r].idx]) = {}
      ]_vars

====
